---- MODULE Spec2Model ----
(***************************************************************************)
(* dashp: merge several Dash docsets into one in-memory search index and   *)
(* let an external selector (fzf) pick an entry.  Model of src/dashp.py:   *)
(* main, merge_docsets and launch_fzf, with the docset stores (SQLite      *)
(* files) as inputs.                                                       *)
(*                                                                         *)
(* Text is a sequence of one-character strings.  A nullable SQL cell is    *)
(* Null (the empty tuple) or Text(s) (the one-element tuple holding s).    *)
(***************************************************************************)
EXTENDS Integers, Sequences, FiniteSets, TLC

VARIABLES
    argv,            \* sys.argv[1:], a sequence of texts
    fs,              \* the docset stores on disk: docset path -> store
    pc,              \* position in the program
    docsets,         \* main's filtered list of docset paths
    i,               \* merge_docsets: position of the for loop in docsets
    conn,            \* positions of the docsets whose store connection is open
    exc,             \* the exception being handled or propagating (or NoExc)
    rows,            \* merge_docsets: rows fetched from the current store
    r,               \* merge_docsets: position of the row loop in rows
    index,           \* rows of the in-memory searchIndex table
    log,             \* diagnostics written by logging
    fzf_returncode,  \* launch_fzf: the selector's return code, Null if none
    selected_path,   \* main: what launch_fzf returned (Null for None)
    stdout,          \* lines printed by main
    exit_status      \* the process exit status, Null while running

vars == <<argv, fs, pc, docsets, i, conn, exc, rows, r, index, log,
          fzf_returncode, selected_path, stdout, exit_status>>

---------------------------------------------------------------------------
(* Bounds of the model *)

MaxArgs == 2
MaxPieces == 3
MaxTokens == 2

---------------------------------------------------------------------------
(* Cells and text *)

Null == <<>>
Text(s) == <<s>>

SLASH == <<"/">>
DOCSET_SUFFIX == <<".", "d", "o", "c", "s", "e", "t">>
DOCUMENTS_REL ==
    <<"C", "o", "n", "t", "e", "n", "t", "s", "/",
      "R", "e", "s", "o", "u", "r", "c", "e", "s", "/",
      "D", "o", "c", "u", "m", "e", "n", "t", "s">>
DASH_ENTRY == <<"<", "d", "a", "s", "h", "_", "e", "n", "t", "r", "y", "_">>

EndsWith(s, suffix) ==
    /\ Len(suffix) <= Len(s)
    /\ SubSeq(s, Len(s) - Len(suffix) + 1, Len(s)) = suffix

StartsWithAt(s, p, prefix) ==
    /\ p + Len(prefix) - 1 <= Len(s)
    /\ SubSeq(s, p, p + Len(prefix) - 1) = prefix

\* str.removesuffix: drops one occurrence of the suffix, if present.
RemoveSuffix(s, suffix) ==
    IF suffix # <<>> /\ EndsWith(s, suffix)
    THEN SubSeq(s, 1, Len(s) - Len(suffix))
    ELSE s

\* Position of the last c in s, 0 if none (str.rfind, 1-based).
RFind(s, c) ==
    LET hits == {k \in 1..Len(s) : s[k] = c}
    IN IF hits = {} THEN 0 ELSE CHOOSE k \in hits : \A j \in hits : j <= k

\* Path(arg), as its str(): trailing separators are dropped.
RECURSIVE PathOf(_)
PathOf(arg) ==
    IF Len(arg) > 1 /\ arg[Len(arg)] = "/"
    THEN PathOf(SubSeq(arg, 1, Len(arg) - 1))
    ELSE arg

\* Path.name: the final component.
PathName(p) == SubSeq(p, RFind(p, "/") + 1, Len(p))

\* Path.stem: the final component without its last suffix.
Stem(p) ==
    LET name == PathName(p)
        k == RFind(name, ".")
    IN IF 1 < k /\ k < Len(name) THEN SubSeq(name, 1, k - 1) ELSE name

\* str(docset / 'Contents/Resources/Documents')
DocumentsRoot(docset) == docset \o SLASH \o DOCUMENTS_REL

---------------------------------------------------------------------------
(* re.sub(r"<dash_entry_.*>", "", path) *)

\* Position of the first line break at or after p, Len(s) + 1 if none:
\* "." matches any character except a line break.
LineEnd(s, p) ==
    LET hits == {k \in p..Len(s) : s[k] = "\n"}
    IN IF hits = {} THEN Len(s) + 1
       ELSE CHOOSE k \in hits : \A j \in hits : k <= j

\* Where the match that starts at p ends, 0 if no match starts at p.  ".*" is
\* greedy: it runs to the last ">" of the line.
MatchEnd(s, p) ==
    IF ~StartsWithAt(s, p, DASH_ENTRY) THEN 0
    ELSE LET from == p + Len(DASH_ENTRY)
             hits == {k \in from..(LineEnd(s, from) - 1) : s[k] = ">"}
         IN IF hits = {} THEN 0
            ELSE CHOOSE k \in hits : \A j \in hits : j <= k

\* The scan of re.sub from position p: a match is dropped and the scan goes on
\* after it; any other character is copied.
RECURSIVE SubFrom(_, _)
SubFrom(s, p) ==
    IF p > Len(s) THEN <<>>
    ELSE IF MatchEnd(s, p) # 0 THEN SubFrom(s, MatchEnd(s, p) + 1)
    ELSE <<s[p]>> \o SubFrom(s, p + 1)

CleanPath(path) == SubFrom(path, 1)

\* Mutant of PrefixedPath: the path joined with the "/" operator of Path, which
\* re-roots a path that begins with "/".
PrefixedPathJoined(docset, path) ==
    IF path # <<>> /\ Head(path) = "/" THEN path
    ELSE DocumentsRoot(docset) \o SLASH \o path

\* f"{str(docset / 'Contents/Resources/Documents') + '/' + path}"
PrefixedPath(docset, path) == DocumentsRoot(docset) \o SLASH \o path

---------------------------------------------------------------------------
(* The docset stores and the two queries *)

OperationalError(msg) == [class |-> "OperationalError", msg |-> msg]
DatabaseError(msg) == [class |-> "DatabaseError", msg |-> msg]
TypeError(msg) == [class |-> "TypeError", msg |-> msg]
NoExc == [class |-> "none", msg |-> ""]

Rows(rs) == [ok |-> TRUE, rows |-> rs, error |-> NoExc]
Raises(e) == [ok |-> FALSE, rows |-> <<>>, error |-> e]

\* What SQLite answers to any statement on a store it cannot read.
Fault(store) ==
    CASE store.fault = "locked" -> OperationalError("database is locked")
      [] store.fault = "corrupt" -> DatabaseError("file is not a database")
      [] OTHER -> NoExc

\* SELECT name, type, path FROM searchIndex
ModernQuery(store) ==
    IF Fault(store) # NoExc THEN Raises(Fault(store))
    ELSE IF store.schema # "modern"
    THEN Raises(OperationalError("no such table: searchIndex"))
    ELSE Rows(store.searchIndex)

\* Mutant of Url: the anchor appended without nullif, so that an empty anchor
\* still adds "#".
UrlWithoutNullif(zpath, zanchor) ==
    IF zpath = Null THEN Null
    ELSE IF zanchor = Null THEN zpath
    ELSE Text(zpath[1] \o <<"#">> \o zanchor[1])

\* zpath || ifnull('#' || nullif(zanchor, ''), '')
Url(zpath, zanchor) ==
    IF zpath = Null THEN Null
    ELSE IF zanchor = Null \/ zanchor = Text(<<>>) THEN zpath
    ELSE Text(zpath[1] \o <<"#">> \o zanchor[1])

\* The rows the three inner joins give for one token.
JoinToken(store, t) ==
    LET matches ==
            {m \in store.ztokenmetainformation \X store.zfilepath \X store.ztokentype :
                /\ Text(m[1].z_pk) = t.zmetainformation
                /\ Text(m[2].z_pk) = m[1].zfile
                /\ Text(m[3].z_pk) = t.ztokentype}
        RECURSIVE Emit(_)
        Emit(S) ==
            IF S = {} THEN <<>>
            ELSE LET m == CHOOSE x \in S : TRUE
                 IN <<[name |-> t.ztokenname,
                       type |-> m[3].ztypename,
                       path |-> Url(m[2].zpath, m[1].zanchor)]>> \o Emit(S \ {m})
    IN Emit(matches)

RECURSIVE JoinFrom(_, _)
JoinFrom(store, k) ==
    IF k > Len(store.ztoken) THEN <<>>
    ELSE JoinToken(store, store.ztoken[k]) \o JoinFrom(store, k + 1)

\* SELECT ... FROM ztoken JOIN ztokenmetainformation ... JOIN zfilepath ...
\* JOIN ztokentype ..., in the order of the token table.
LegacyQuery(store) ==
    IF Fault(store) # NoExc THEN Raises(Fault(store))
    ELSE IF store.schema # "legacy"
    THEN Raises(OperationalError("no such table: ztoken"))
    ELSE Rows(JoinFrom(store, 1))

---------------------------------------------------------------------------
(* The program *)

\* [Path(arg) for arg in sys.argv[1:] if arg.removesuffix("/").endswith(".docset")]
RECURSIVE FilterDocsets(_)
FilterDocsets(args) ==
    IF args = <<>> THEN <<>>
    ELSE LET arg == Head(args)
         IN (IF EndsWith(RemoveSuffix(arg, SLASH), DOCSET_SUFFIX)
             THEN <<PathOf(arg)>> ELSE <<>>) \o FilterDocsets(Tail(args))

\* Mutant of Entry: the row tagged with the docset's path instead of its stem.
EntryTaggedByPath(docset, row, id) ==
    [id |-> id,
     name |-> row.name,
     type |-> row.type,
     docset |-> docset,
     path |-> PrefixedPath(docset, CleanPath(row.path[1]))]

\* The row INSERTed for one fetched row; id is the INTEGER PRIMARY KEY.
Entry(docset, row, id) ==
    [id |-> id,
     name |-> row.name,
     type |-> row.type,
     docset |-> Stem(docset),
     path |-> PrefixedPath(docset, CleanPath(row.path[1]))]

\* sys.exit(n): the status the operating system reports.
ExitCode(n) == n % 256

\* Mutant of StoreExists: the store is taken to be there without a look.
StoreExistsUnchecked(docset) == TRUE

\* docset_db_path.exists(), for docset / "Contents/Resources/docSet.dsidx"
StoreExists(docset) == fs[docset].present

\* Mutant of Interrupted: return code 130 handled like any other failure.
InterruptedIgnored(rc) == FALSE

\* "Exit code 130 means FZF was interrupted with Esc or Ctrl-C"
Interrupted(rc) == rc = 130

\* main, up to the call of merge_docsets.
Main ==
    /\ pc = "main"
    /\ IF Len(argv) < 1
       THEN /\ log' = Append(log, <<"ERROR", "Usage">>)
            /\ exit_status' = Text(ExitCode(1))
            /\ pc' = "exited"
            /\ UNCHANGED docsets
       ELSE IF FilterDocsets(argv) = <<>>
       THEN /\ log' = Append(log, <<"ERROR", "No docsets provided.">>)
            /\ exit_status' = Text(ExitCode(1))
            /\ pc' = "exited"
            /\ UNCHANGED docsets
       ELSE /\ docsets' = FilterDocsets(argv)
            /\ pc' = "for"
            /\ UNCHANGED <<log, exit_status>>
    /\ UNCHANGED <<argv, fs, i, conn, exc, rows, r, index, fzf_returncode,
                   selected_path, stdout>>

\* merge_docsets: one turn of "for docset in docsets", up to the connection.
ForDocset ==
    /\ pc = "for"
    /\ i <= Len(docsets)
    /\ LET store == fs[docsets[i]]
       IN IF ~StoreExists(docsets[i])
          THEN /\ log' = Append(log, <<"WARNING", "Database not found for docset">>)
               /\ i' = i + 1
               /\ UNCHANGED <<pc, conn, exc>>
          ELSE IF store.fault = "unopenable"
          THEN /\ exc' = OperationalError("unable to open database file")
               /\ pc' = "unwind_db"
               /\ UNCHANGED <<log, i, conn>>
          ELSE /\ conn' = conn \cup {i}
               /\ pc' = "modern_query"
               /\ UNCHANGED <<log, i, exc>>
    /\ UNCHANGED <<argv, fs, docsets, rows, r, index, fzf_returncode,
                   selected_path, stdout, exit_status>>

\* The try block: the modern query; "except sqlite3.OperationalError" leads to
\* the legacy query, any other exception leaves the block.
TryModern ==
    /\ pc = "modern_query"
    /\ LET res == ModernQuery(fs[docsets[i]])
       IN IF res.ok
          THEN /\ rows' = res.rows
               /\ r' = 1
               /\ pc' = "rows"
               /\ UNCHANGED exc
          ELSE /\ exc' = res.error
               /\ pc' = IF res.error.class = "OperationalError"
                        THEN "legacy_query" ELSE "unwind_closing"
               /\ UNCHANGED <<rows, r>>
    /\ UNCHANGED <<argv, fs, docsets, i, conn, index, log, fzf_returncode,
                   selected_path, stdout, exit_status>>

\* The except block: the legacy query; its own exception is not caught.
ExceptLegacy ==
    /\ pc = "legacy_query"
    /\ LET res == LegacyQuery(fs[docsets[i]])
       IN IF res.ok
          THEN /\ rows' = res.rows
               /\ r' = 1
               /\ pc' = "rows"
               /\ exc' = NoExc
          ELSE /\ exc' = res.error
               /\ pc' = "unwind_closing"
               /\ UNCHANGED <<rows, r>>
    /\ UNCHANGED <<argv, fs, docsets, i, conn, index, log, fzf_returncode,
                   selected_path, stdout, exit_status>>

\* One turn of "for name, entry_type, path in rows": re.sub raises TypeError on
\* a NULL path; otherwise the row is inserted.
InsertRow ==
    /\ pc = "rows"
    /\ r <= Len(rows)
    /\ IF rows[r].path = Null
       THEN /\ exc' = TypeError("expected string or bytes-like object")
            /\ pc' = "unwind_closing"
            /\ UNCHANGED <<index, r>>
       ELSE /\ index' = Append(index, Entry(docsets[i], rows[r], Len(index) + 1))
            /\ r' = r + 1
            /\ UNCHANGED <<exc, pc>>
    /\ UNCHANGED <<argv, fs, docsets, i, conn, rows, log, fzf_returncode,
                   selected_path, stdout, exit_status>>

\* The end of the "with contextlib.closing(...)" block: the store is closed.
CloseStore ==
    /\ pc = "rows"
    /\ r > Len(rows)
    /\ conn' = conn \ {i}
    /\ i' = i + 1
    /\ pc' = "for"
    /\ UNCHANGED <<argv, fs, docsets, exc, rows, r, index, log, fzf_returncode,
                   selected_path, stdout, exit_status>>

\* Mutant of UnwindClosing: the block left without closing the store, as with
\* the connection's own context manager in place of contextlib.closing.
UnwindWithoutClose ==
    /\ pc = "unwind_closing"
    /\ pc' = "unwind_db"
    /\ UNCHANGED <<argv, fs, docsets, i, conn, exc, rows, r, index, log,
                   fzf_returncode, selected_path, stdout, exit_status>>

\* An exception leaves the "with contextlib.closing(...)" block: the store is
\* closed and the exception goes on.
UnwindClosing ==
    /\ pc = "unwind_closing"
    /\ conn' = conn \ {i}
    /\ pc' = "unwind_db"
    /\ UNCHANGED <<argv, fs, docsets, i, exc, rows, r, index, log,
                   fzf_returncode, selected_path, stdout, exit_status>>

\* An exception leaves the "with sqlite3.connect(":memory:") as db" block: the
\* connection's context manager rolls the open transaction back, and with it
\* every INSERT (none was committed).
UnwindDb ==
    /\ pc = "unwind_db"
    /\ index' = <<>>
    /\ pc' = "traceback"
    /\ UNCHANGED <<argv, fs, docsets, i, conn, exc, rows, r, log,
                   fzf_returncode, selected_path, stdout, exit_status>>

\* Nothing in main catches the exception: the interpreter prints the traceback
\* and exits with status 1.
Traceback ==
    /\ pc = "traceback"
    /\ exit_status' = Text(ExitCode(1))
    /\ pc' = "exited"
    /\ UNCHANGED <<argv, fs, docsets, i, conn, exc, rows, r, index, log,
                   fzf_returncode, selected_path, stdout>>

\* "return db" after the last docset: the context manager commits.
Return ==
    /\ pc = "for"
    /\ i > Len(docsets)
    /\ pc' = "launch_fzf"
    /\ UNCHANGED <<argv, fs, docsets, i, conn, exc, rows, r, index, log,
                   fzf_returncode, selected_path, stdout, exit_status>>

\* What the selector process can do: not be installed, or end with a return
\* code and, on 0, print the path field of one entry or nothing.
FzfReturnCodes == {0, 1, 2, 130, -9}

\* launch_fzf.
LaunchFzf ==
    /\ pc = "launch_fzf"
    /\ \/ /\ log' = Append(log, <<"ERROR", "FZF is not installed.">>)
          /\ selected_path' = Null
          /\ pc' = "after_fzf"
          /\ UNCHANGED <<fzf_returncode, exit_status>>
       \/ \E rc \in FzfReturnCodes, out \in {Null} \cup {Text(index[k].path) : k \in 1..Len(index)} :
             /\ rc # 0 => out = Null
             /\ fzf_returncode' = Text(rc)
             /\ IF Interrupted(rc)
                THEN /\ selected_path' = Null
                     /\ pc' = "after_fzf"
                     /\ UNCHANGED <<log, exit_status>>
                ELSE IF rc # 0
                THEN /\ log' = Append(log, <<"ERROR", "FZF failed to run with exit code">>)
                     /\ exit_status' = Text(ExitCode(rc))
                     /\ pc' = "exited"
                     /\ UNCHANGED selected_path
                ELSE /\ selected_path' = out
                     /\ pc' = "after_fzf"
                     /\ UNCHANGED <<log, exit_status>>
    /\ UNCHANGED <<argv, fs, docsets, i, conn, exc, rows, r, index, stdout>>

\* main, after launch_fzf returned.
MainExit ==
    /\ pc = "after_fzf"
    /\ IF selected_path # Null
       THEN /\ stdout' = Append(stdout, selected_path[1])
            /\ exit_status' = Text(ExitCode(0))
       ELSE /\ exit_status' = Text(ExitCode(1))
            /\ UNCHANGED stdout
    /\ pc' = "exited"
    /\ UNCHANGED <<argv, fs, docsets, i, conn, exc, rows, r, index, log,
                   fzf_returncode, selected_path>>

---------------------------------------------------------------------------
(* Inputs: command lines and docset stores *)

Range(f) == {f[k] : k \in DOMAIN f}

SeqsUpTo(S, n) == UNION {[1..k -> S] : k \in 0..n}

RECURSIVE Concat(_)
Concat(ss) == IF ss = <<>> THEN <<>> ELSE Head(ss) \o Concat(Tail(ss))

ArgA == <<"A">> \o DOCSET_SUFFIX
ArgB == <<"B">> \o DOCSET_SUFFIX \o SLASH
ArgSubA == <<"d", "/", "A">> \o DOCSET_SUFFIX
ArgHidden == DOCSET_SUFFIX
ArgOther == <<"x", ".", "t", "x", "t">>
Args == {ArgA, ArgB, ArgSubA, ArgHidden, ArgOther}

AbsentStore ==
    [present |-> FALSE, fault |-> "none", schema |-> "none", searchIndex |-> <<>>,
     ztoken |-> <<>>, ztokenmetainformation |-> {}, zfilepath |-> {},
     ztokentype |-> {}]

ModernStore(rs) ==
    [AbsentStore EXCEPT !.present = TRUE, !.schema = "modern", !.searchIndex = rs]

LegacyStore(tokens, metas, files, types) ==
    [AbsentStore EXCEPT !.present = TRUE, !.schema = "legacy", !.ztoken = tokens,
                        !.ztokenmetainformation = metas, !.zfilepath = files,
                        !.ztokentype = types]

EmptyStore == [AbsentStore EXCEPT !.present = TRUE]

Faulty(store, fault) == [store EXCEPT !.fault = fault]

\* A whole legacy marker, <dash_entry_f>
Marker == DASH_ENTRY \o <<"f", ">">>

RowMap == [name |-> "map", type |-> "Function", path |-> Text(<<"/", "m">>)]
RowFoo == [name |-> "foo", type |-> "Method", path |-> Text(Marker \o <<"a">>)]
RowNullPath == [name |-> "bad", type |-> "Guide", path |-> Null]

ZTokenTypes == {[z_pk |-> 1, ztypename |-> "Class"]}
ZFilePaths ==
    {[z_pk |-> 1, zpath |-> Text(<<"b">>)],
     [z_pk |-> 2, zpath |-> Null]}
ZTokenMetaInformation ==
    {[z_pk |-> 1, zfile |-> Text(1), zanchor |-> Text(<<"x">>)],
     [z_pk |-> 2, zfile |-> Text(1), zanchor |-> Text(<<>>)],
     [z_pk |-> 3, zfile |-> Text(1), zanchor |-> Null],
     [z_pk |-> 4, zfile |-> Text(9), zanchor |-> Text(<<"x">>)],
     [z_pk |-> 5, zfile |-> Text(2), zanchor |-> Text(<<"x">>)]}

Token(name, meta, type) ==
    [ztokenname |-> name, zmetainformation |-> meta, ztokentype |-> type]

LegacyOf(tokens) ==
    LegacyStore(tokens, ZTokenMetaInformation, ZFilePaths, ZTokenTypes)

MainStores ==
    {AbsentStore,
     ModernStore(<<RowMap, RowMap>>),
     ModernStore(<<RowFoo>>),
     ModernStore(<<RowMap, RowNullPath>>),
     LegacyOf(<<Token("bar", Text(1), Text(1)), Token("baz", Text(3), Text(1))>>),
     EmptyStore,
     Faulty(ModernStore(<<RowMap>>), "locked"),
     Faulty(ModernStore(<<RowMap>>), "corrupt"),
     Faulty(ModernStore(<<RowMap>>), "unopenable")}

Start ==
    /\ pc = "main"
    /\ docsets = <<>>
    /\ i = 1
    /\ conn = {}
    /\ exc = NoExc
    /\ rows = <<>>
    /\ r = 1
    /\ index = <<>>
    /\ log = <<>>
    /\ fzf_returncode = Null
    /\ selected_path = Null
    /\ stdout = <<>>
    /\ exit_status = Null

\* Any command line of at most MaxArgs arguments, any store behind each docset.
Init ==
    /\ argv \in SeqsUpTo(Args, MaxArgs)
    /\ fs \in [Range(FilterDocsets(argv)) -> MainStores]
    /\ Start

Next ==
    \/ Main
    \/ ForDocset
    \/ TryModern
    \/ ExceptLegacy
    \/ InsertRow
    \/ CloseStore
    \/ UnwindClosing
    \/ UnwindDb
    \/ Traceback
    \/ Return
    \/ LaunchFzf
    \/ MainExit

Spec == Init /\ [][Next]_vars

\* One docset with a modern store of one row, whose path is any text of at
\* most MaxPieces pieces.
PathPieces == {Marker, DASH_ENTRY, <<"a">>, SLASH, <<"\n">>}
RawPaths == {Concat(ps) : ps \in SeqsUpTo(PathPieces, MaxPieces)}

InitPaths ==
    /\ argv \in {<<ArgA>>, <<ArgB>>, <<ArgSubA>>}
    /\ \E p \in RawPaths :
          fs = [d \in Range(FilterDocsets(argv)) |->
                    ModernStore(<<[name |-> "foo", type |-> "Method", path |-> Text(p)]>>)]
    /\ Start

NextPaths ==
    \/ Main
    \/ ForDocset
    \/ TryModern
    \/ InsertRow
    \/ CloseStore
    \/ Return

SpecPaths == InitPaths /\ [][NextPaths]_vars

\* One docset with a legacy store of at most MaxTokens tokens, whose references
\* may resolve or not.
MetaRefs == {Null, Text(1), Text(2), Text(3), Text(4), Text(5), Text(6)}
TypeRefs == {Null, Text(1), Text(7)}
Tokens == {Token("bar", m, t) : m \in MetaRefs, t \in TypeRefs}

InitLegacy ==
    /\ argv = <<ArgA>>
    /\ \E ts \in SeqsUpTo(Tokens, MaxTokens) :
          fs = [d \in Range(FilterDocsets(argv)) |-> LegacyOf(ts)]
    /\ Start

NextLegacy ==
    \/ Main
    \/ ForDocset
    \/ TryModern
    \/ ExceptLegacy
    \/ InsertRow
    \/ CloseStore
    \/ UnwindClosing
    \/ UnwindDb
    \/ Traceback
    \/ Return

SpecLegacy == InitLegacy /\ [][NextLegacy]_vars

---------------------------------------------------------------------------
(* What the claims speak of *)

IsPrefix(a, b) == Len(a) <= Len(b) /\ SubSeq(b, 1, Len(a)) = a

\* The positions of merge_docsets.
MergePcs == {"for", "modern_query", "legacy_query", "rows", "unwind_closing", "unwind_db"}

\* An index row without its id.
Fields(e) == [name |-> e.name, type |-> e.type, docset |-> e.docset, path |-> e.path]

\* The rows a docset's store yields: those of the modern query, else those of
\* the legacy query; none when the store is absent or cannot be read.
Extracted(store) ==
    IF ~store.present \/ store.fault = "unopenable" THEN Raises(NoExc)
    ELSE IF ModernQuery(store).ok THEN ModernQuery(store)
    ELSE LegacyQuery(store)

\* Whether a present store's extraction fails, in a query or on a row.
ExtractionFails(store) ==
    /\ store.present
    /\ \/ ~Extracted(store).ok
       \/ \E k \in 1..Len(Extracted(store).rows) : Extracted(store).rows[k].path = Null

\* The entries a docset is to contribute: one per extracted row, in order,
\* none when its store is absent or its extraction fails.
Contribution(docset) ==
    LET rs == Extracted(fs[docset]).rows
    IN IF ExtractionFails(fs[docset]) THEN <<>>
       ELSE [k \in 1..Len(rs) |->
                [name |-> rs[k].name, type |-> rs[k].type, docset |-> Stem(docset),
                 path |-> DocumentsRoot(docset) \o SLASH \o CleanPath(rs[k].path[1])]]

RECURSIVE ContributionsFrom(_)
ContributionsFrom(ds) ==
    IF ds = <<>> THEN <<>>
    ELSE Contribution(Head(ds)) \o ContributionsFrom(Tail(ds))

\* C1: per-docset failures are isolated.  Once merge_docsets is over, every
\* entry of every docset whose extraction does not fail is in the index, before
\* and after a docset whose extraction fails, and a docset whose extraction
\* fails has no entry in it.
C1_FailuresIsolated ==
    pc \in {"traceback", "launch_fzf"} =>
        \A j \in 1..Len(docsets) :
            /\ \A q \in 1..Len(Contribution(docsets[j])) :
                  \E k \in 1..Len(index) : Fields(index[k]) = Contribution(docsets[j])[q]
            /\ ExtractionFails(fs[docsets[j]]) =>
                  \A k \in 1..Len(index) :
                      ~IsPrefix(DocumentsRoot(docsets[j]) \o SLASH, index[k].path)

\* C2: the legacy query is attempted only when the modern query failed because
\* the expected table does not exist.
C2_FallbackOnlyOnMissingTable ==
    pc = "legacy_query" => exc = OperationalError("no such table: searchIndex")

\* The end of the marker that starts at p when a marker runs to the NEXT ">"
\* of the line, 0 if none starts at p.
MarkerEnd(s, p) ==
    IF ~StartsWithAt(s, p, DASH_ENTRY) THEN 0
    ELSE LET from == p + Len(DASH_ENTRY)
             hits == {k \in from..(LineEnd(s, from) - 1) : s[k] = ">"}
         IN IF hits = {} THEN 0
            ELSE CHOOSE k \in hits : \A j \in hits : k <= j

RECURSIVE WithoutMarkersFrom(_, _)
WithoutMarkersFrom(s, p) ==
    IF p > Len(s) THEN <<>>
    ELSE IF MarkerEnd(s, p) # 0 THEN WithoutMarkersFrom(s, MarkerEnd(s, p) + 1)
    ELSE <<s[p]>> \o WithoutMarkersFrom(s, p + 1)

\* C3: path normalization removes every marker, from <dash_entry_ to the next
\* ">", and keeps the text between and around the markers: the entry inserted
\* for a row holds the row's path without its markers.
C3_MarkersRemovedTextKept ==
    (pc = "rows" /\ r > 1) =>
        index[Len(index)].path =
            DocumentsRoot(docsets[i]) \o SLASH \o WithoutMarkersFrom(rows[r - 1].path[1], 1)

\* C4: a docset whose store file is absent is skipped: the index stays as it
\* was, nothing is raised, a warning is logged and the loop goes on to the
\* next docset.
C4_MissingStoreSkipped ==
    [][(pc = "for" /\ i <= Len(docsets) /\ ~fs[docsets[i]].present) =>
          /\ index' = index
          /\ exc' = NoExc
          /\ conn' = conn
          /\ exit_status' = Null
          /\ log' = Append(log, <<"WARNING", "Database not found for docset">>)
          /\ pc' = "for"
          /\ i' = i + 1]_vars

\* A docset with an absent store was skipped and the docset after it was merged.
C4_Witness ==
    /\ pc = "launch_fzf"
    /\ Len(docsets) = 2
    /\ ~fs[docsets[1]].present
    /\ Len(log) = 1
    /\ Len(index) = 2

\* Every step of merge_docsets leaves the former contents of the index as a
\* prefix of the new ones.
EveryStepAppends ==
    [][(pc \in MergePcs) => IsPrefix(index, index')]_vars

\* When merge_docsets returns the index is the concatenation, in the order of
\* the list, of each docset's rows in the order they were extracted.
ReturnsConcatenation ==
    [](pc = "launch_fzf" =>
          [k \in 1..Len(index) |-> Fields(index[k])] = ContributionsFrom(docsets))

\* C5: the index is append-only and order-preserving: every step of
\* merge_docsets leaves the former contents as a prefix of the new ones, and
\* when merge_docsets returns the index is the concatenation, in the order of
\* the list, of each docset's rows in the order they were extracted.
C5_AppendOnlyInOrder == EveryStepAppends /\ ReturnsConcatenation

\* Where the entries of the j-th docset start in the index, less one.
RECURSIVE Offset(_)
Offset(j) == IF j <= 1 THEN 0 ELSE Offset(j - 1) + Len(Contribution(docsets[j - 1]))

\* C6: entries are never deduplicated and each is tagged with its own docset:
\* after the merge the index holds one entry per extracted row of every
\* docset, equal names and kinds included, each with the name and kind of its
\* row and the stem of its docset, and no two entries are the same.
C6_NoDedupTaggedByStem ==
    pc = "launch_fzf" =>
        /\ Len(index) = Offset(Len(docsets) + 1)
        /\ \A j \in 1..Len(docsets) :
              \A q \in 1..Len(Extracted(fs[docsets[j]]).rows) :
                  LET e == index[Offset(j) + q]
                      row == Extracted(fs[docsets[j]]).rows[q]
                  IN /\ e.name = row.name
                     /\ e.type = row.type
                     /\ e.docset = Stem(docsets[j])
        /\ \A k1, k2 \in 1..Len(index) : k1 # k2 => index[k1] # index[k2]

\* Two docsets with different stems each gave a map/Function entry, and one of
\* them gave the same row twice.
C6_Witness ==
    /\ pc = "launch_fzf"
    /\ \E k1, k2 \in 1..Len(index) :
          /\ index[k1].name = "map" /\ index[k1].type = "Function"
          /\ index[k2].name = "map" /\ index[k2].type = "Function"
          /\ index[k1].docset # index[k2].docset
    /\ \E k1, k2 \in 1..Len(index) : k1 # k2 /\ Fields(index[k1]) = Fields(index[k2])

\* C7 as stated: the exit status is 0 or 1, and 0 exactly when a path was
\* printed.
C7_ExitZeroOrOne ==
    exit_status # Null =>
        /\ exit_status[1] \in {0, 1}
        /\ exit_status[1] = 0 <=> stdout # <<>>

\* The selector ran and ended with a return code other than 0 and 130.
SelectorFailed == fzf_returncode # Null /\ fzf_returncode[1] \notin {0, 130}

\* C7, amended: the exit status is 0 exactly when a path was printed; when the
\* selector failed with a return code other than 0 and 130 it is that return
\* code (modulo 256); in every other outcome it is 1.
C7_ExitStatus ==
    exit_status # Null =>
        /\ exit_status[1] = 0 <=> stdout # <<>>
        /\ SelectorFailed => exit_status[1] = fzf_returncode[1] % 256
        /\ (~SelectorFailed /\ stdout = <<>>) => exit_status[1] = 1

\* The selector failed with return code 2 and dashp exited with 2.
C7_Witness ==
    /\ pc = "exited"
    /\ fzf_returncode = Text(2)
    /\ exit_status = Text(2)

\* C8: the stored path is the docset's documents root, "/" and the cleaned raw
\* path, in this order: a cleaned path that begins with "/" stays beneath the
\* documents root, an empty one gives the documents root (and "/").
C8_PathBeneathDocumentsRoot ==
    (pc = "rows" /\ r > 1) =>
        LET path == index[Len(index)].path
            root == docsets[i] \o <<"/">> \o DOCUMENTS_REL
            cleaned == CleanPath(rows[r - 1].path[1])
        IN /\ path = root \o <<"/">> \o cleaned
           /\ IsPrefix(root \o <<"/">>, path)
           /\ cleaned = <<>> => (path = root \o <<"/">> /\ exc = NoExc)

\* A row whose cleaned path begins with "/" was inserted.
C8_Witness ==
    /\ pc = "rows"
    /\ r > 1
    /\ CleanPath(rows[r - 1].path[1]) # <<>>
    /\ Head(CleanPath(rows[r - 1].path[1])) = "/"
    /\ Len(index) = 1

\* The rows of the other three tables a token refers to, if any.
Resolves(store, t) ==
    \E m \in store.ztokenmetainformation, f \in store.zfilepath, ty \in store.ztokentype :
        /\ t.zmetainformation = <<m.z_pk>>
        /\ m.zfile = <<f.z_pk>>
        /\ t.ztokentype = <<ty.z_pk>>

MetaOf(store, t) ==
    CHOOSE m \in store.ztokenmetainformation : t.zmetainformation = <<m.z_pk>>

FileOf(store, t) ==
    CHOOSE f \in store.zfilepath : MetaOf(store, t).zfile = <<f.z_pk>>

\* base_path when the anchor is empty or absent, base_path # anchor otherwise
\* (a NULL base_path gives a NULL path).
AnchoredPath(base_path, anchor) ==
    IF base_path = Null THEN Null
    ELSE IF anchor = Null \/ anchor = <<<<>>>> THEN base_path
    ELSE <<base_path[1] \o <<"#">> \o anchor[1]>>

\* C9 as stated: extraction from a legacy store yields exactly one row per
\* token of the token table, with the path base_path or base_path # anchor.
C9_OneRowPerToken ==
    (pc = "rows" /\ fs[docsets[i]].schema = "legacy") =>
        LET store == fs[docsets[i]]
        IN /\ Len(rows) = Len(store.ztoken)
           /\ \A k \in 1..Len(rows) :
                 /\ Resolves(store, store.ztoken[k])
                 /\ rows[k].path =
                        AnchoredPath(FileOf(store, store.ztoken[k]).zpath,
                                     MetaOf(store, store.ztoken[k]).zanchor)

\* C9, amended: extraction from a legacy store yields exactly one row per
\* token whose metainformation, file path and token type all resolve, and no
\* row for any other token; the row has the token's name and the path
\* base_path when the anchor is empty or absent, base_path # anchor otherwise.
C9_OneRowPerResolvedToken ==
    (pc = "rows" /\ fs[docsets[i]].schema = "legacy") =>
        LET store == fs[docsets[i]]
            IsResolved(t) == Resolves(store, t)
            resolved == SelectSeq(store.ztoken, IsResolved)
        IN /\ Len(rows) = Len(resolved)
           /\ \A k \in 1..Len(rows) :
                 /\ rows[k].name = resolved[k].ztokenname
                 /\ rows[k].path =
                        AnchoredPath(FileOf(store, resolved[k]).zpath,
                                     MetaOf(store, resolved[k]).zanchor)

\* Of two tokens one resolves, with an anchor, and gives a row; the other does
\* not and gives none.
C9_Witness ==
    /\ pc = "rows"
    /\ Len(fs[docsets[i]].ztoken) = 2
    /\ Len(rows) = 1
    /\ rows[1].path = <<<<"b", "#", "x">>>>

\* C10: store connections are scoped to one docset: at most one is open, it is
\* the current docset's, and none is open when the loop turns to the next
\* docset, when merge_docsets has returned, or when an exception has left the
\* docset's block.
C10_ConnectionScoped ==
    /\ Cardinality(conn) <= 1
    /\ conn # {} => (conn = {i} /\ pc \in {"modern_query", "legacy_query", "rows", "unwind_closing"})
    /\ pc \in {"modern_query", "legacy_query", "rows"} => conn = {i}

\* Row processing raised in the second docset after the first was merged, and
\* no connection is open as the exception leaves merge_docsets.
C10_Witness ==
    /\ pc = "unwind_db"
    /\ exc.class = "TypeError"
    /\ i = 2
    /\ Len(index) = 3
    /\ conn = {}

====
